---- MODULE Spec2Model ----
(***************************************************************************)
(* Bloom filters of the b-f crate: the classical filter                    *)
(* (src/bloom_filters/classical_bloom_filter.rs, the same code as          *)
(* BloomFilter in src/bloom.rs) and the partitioned filter                 *)
(* (PartitionedBloomFilter in src/bloom.rs), with the parameter formulas   *)
(* of the Filter trait (src/bloom_filters/base.rs).                        *)
(*                                                                         *)
(* Floating point: the false positive rate f is drawn from FSamples and    *)
(* written in hundredths (1 is 0.01, 90 is 0.9, -50 is -0.5).  f.ln() is   *)
(* tabulated in millionths; the quotient by LN_2.powi(2) and the product   *)
(* by LN_2 are exact rationals over these millionths, so that ceil() and   *)
(* the `as u64` cast are computed on them as the code computes them.       *)
(***************************************************************************)
EXTENDS Integers, Sequences, FiniteSets

\* ------------------------------------------------------------ bounds
\* largest n (expected number of elements) given to new()
MaxN == 3
\* longest byte sequence given to insert() and lookup()
MaxLen == 1
\* largest n of the parameter calculator's own specification
MaxCalcN == 12
\* the members of the hash family tried (see xxh3_64_with_seed)
MaxSalt == 0
\* size of the modelled hash space (2^64 in xxhash_rust)
XXH_SPACE == 65536

\* ------------------------------------------------------------ inputs
Bytes == {0, 255}

Values == UNION {[1..l -> Bytes] : l \in 0..MaxLen}

\* f in hundredths: -0.5, 0, 0.01, 0.1, 0.5, 0.7, 0.9, 1.0, 2.0
FSamples == {-50, 0, 1, 10, 50, 70, 90, 100, 200}

Variants == {"classical", "partitioned"}

\* n >= 1 and f strictly in (0, 1)
ValidParams(nv, fv) == nv >= 1 /\ fv > 0 /\ fv < 100

\* ------------------------------------------------------------ f64
\* std::f64::consts::LN_2, in millionths
LN_2 == 693147
\* LN_2.powi(2) = 0.480453013918..., in millionths
LN_2_POW2 == 480453
MICRO == 1000000
\* u64::MAX, the value `+inf as u64` saturates to.  It is beyond the integers
\* of the checker: it is only compared with, never computed with.
U64_MAX == 2147483647

\* f.ln(): NaN below 0, -inf at 0, finite above
LnClass(fv) == IF fv < 0 THEN "nan" ELSE IF fv = 0 THEN "neg_inf" ELSE "finite"

\* f.ln() in millionths, for the finite cases
LnMicro(fv) ==
    CASE fv = 1   -> -4605170
      [] fv = 10  -> -2302585
      [] fv = 50  -> -693147
      [] fv = 70  -> -356675
      [] fv = 90  -> -105361
      [] fv = 100 -> 0
      [] fv = 200 -> 693147

\* (a / b).ceil() for b > 0
Ceil(a, b) == -((-a) \div b)

\* `x as u64` of a finite float with integral value x: saturating at 0
AsU64(x) == IF x < 0 THEN 0 ELSE x

\* ------------------------------------------------------------ parameters
\* -(f.ln() * n as f64 / (LN_2.powi(2))).ceil() as u64
\* The method call binds first, then the unary minus, then the cast:
\* (-( (f.ln() * n / LN_2^2).ceil() )) as u64.
calculate_m(fv, nv) ==
    IF LnClass(fv) = "nan" THEN 0
    ELSE IF LnClass(fv) = "neg_inf" THEN (IF nv = 0 THEN 0 ELSE U64_MAX)
    ELSE AsU64(-Ceil(LnMicro(fv) * nv, LN_2_POW2))

\* ((m / n as u64) as f64 * LN_2).ceil() as u64; m / 0 panics
calculate_k(mv, nv) == AsU64(Ceil((mv \div nv) * LN_2, MICRO))

\* ------------------------------------------------------------ state
VARIABLES
    pc,             \* "start": before new(); "ready": a filter exists;
                    \* "panicked": the last call panicked or aborted;
                    \* "calc", "calc_m", "calc_k": the parameter calculator alone
    variant,        \* which filter new() built
    n, f,           \* the arguments of new()
    m, k,           \* the fields m and k
    partition_size, \* PartitionedBloomFilter::partition_size
    storage,        \* ClassicalBloomFilter::storage: bit idx |-> BOOLEAN, idx in 0..len-1
    partitions,     \* PartitionedBloomFilter::partitions: i |-> (idx |-> BOOLEAN)
    lastOp,         \* the last call: its name, argument, outcome and the bits it touched
    inserted,       \* the values whose insert() has returned
    salt            \* which member of the hash family xxh3_64_with_seed is

vars == <<pc, variant, n, f, m, k, partition_size, storage, partitions, lastOp,
          inserted, salt>>

\* ------------------------------------------------------------ hashing
\* xxh3_64_with_seed(value, seed) of the xxhash_rust crate: a deterministic
\* function of the bytes and the seed.  The crate is not part of the
\* repository; it is modelled as a member (chosen by salt) of a family of
\* multiplicative byte hashes into 0..XXH_SPACE-1.
RECURSIVE XxhFold(_, _, _)
XxhFold(h, value, j) ==
    IF j > Len(value) THEN h
    ELSE XxhFold((h * 31 + value[j] + 1) % XXH_SPACE, value, j + 1)

xxh3_64_with_seed(value, seed) ==
    (XxhFold((seed * 40503 + salt * 7919 + 1) % XXH_SPACE, value, 1) * 251 + 13) % XXH_SPACE

\* the two seeds of the double hashing
SEED1 == 0
SEED2 == 64

\* ------------------------------------------------------------ bit_vec
\* BitVec::from_elem(nbits, false)
BitVecFromElem(nbits) == [idx \in 0..(nbits - 1) |-> FALSE]

\* BitVecSet writing the complement of the stored bit
BitVecSet_Toggle(bv, idx, x) == [bv EXCEPT ![idx] = ~bv[idx]]

\* BitVec::set(idx, x) panics when idx is out of bounds
BitVecSetPanics(bv, idx) == idx \notin DOMAIN bv

BitVecSet(bv, idx, x) == [bv EXCEPT ![idx] = x]

\* BitVec::get(idx): Some(bit), or None out of bounds
BitVecGet(bv, idx) == IF idx \in DOMAIN bv THEN (IF bv[idx] THEN "Some(true)" ELSE "Some(false)") ELSE "None"

\* what a loop of insert carries: the storage, the bits written (partition,
\* index) in order, and whether an index was out of bounds
LoopState(st, trace, oob) == [st |-> st, trace |-> trace, oob |-> oob]

\* ------------------------------------------------------------ classical
\* ClassicalInsertLoop over 0..k-1 exclusive: the last probe is not written
RECURSIVE ClassicalInsertLoop_SkipLast(_, _, _, _, _)
ClassicalInsertLoop_SkipLast(st, trace, hash1, hash2, i) ==
    IF i >= k - 1 THEN LoopState(st, trace, FALSE)
    ELSE LET idx == (hash1 + i * hash2) % m IN
         IF BitVecSetPanics(st, idx) THEN LoopState(st, trace, TRUE)
         ELSE ClassicalInsertLoop_SkipLast(BitVecSet(st, idx, TRUE),
                                           Append(trace, <<0, idx>>), hash1, hash2, i + 1)

\* for i in 0..self.k { idx = (hash1 + i * hash2) % self.m; storage.set(idx, true) }
RECURSIVE ClassicalInsertLoop(_, _, _, _, _)
ClassicalInsertLoop(st, trace, hash1, hash2, i) ==
    IF i >= k THEN LoopState(st, trace, FALSE)
    ELSE LET idx == (hash1 + i * hash2) % m IN
         IF BitVecSetPanics(st, idx) THEN LoopState(st, trace, TRUE)
         ELSE ClassicalInsertLoop(BitVecSet(st, idx, TRUE), Append(trace, <<0, idx>>),
                                  hash1, hash2, i + 1)

\* ClassicalBloomFilter::insert, on a filter with m > 0
ClassicalInsert(st, value) ==
    ClassicalInsertLoop(st, <<>>, xxh3_64_with_seed(value, SEED1) % m,
                        xxh3_64_with_seed(value, SEED2) % m, 0)

\* what a loop of lookup carries: the answer ("true", "false", or "oob" when
\* partitions[i] is out of bounds) and the bits read (partition, index) in order
LookupState(res, trace) == [res |-> res, trace |-> trace]

\* ClassicalLookupLoop over 0..k-1 exclusive: the last probe is not read
RECURSIVE ClassicalLookupLoop_SkipLast(_, _, _, _, _)
ClassicalLookupLoop_SkipLast(st, trace, hash1, hash2, i) ==
    IF i >= k - 1 THEN LookupState("true", trace)
    ELSE LET idx == (hash1 + i * hash2) % m IN
         IF BitVecGet(st, idx) = "Some(false)"
         THEN LookupState("false", Append(trace, <<0, idx>>))
         ELSE ClassicalLookupLoop_SkipLast(st, Append(trace, <<0, idx>>), hash1, hash2, i + 1)

\* for i in 0..self.k { if storage.get(idx) == Some(false) { return false } } true
RECURSIVE ClassicalLookupLoop(_, _, _, _, _)
ClassicalLookupLoop(st, trace, hash1, hash2, i) ==
    IF i >= k THEN LookupState("true", trace)
    ELSE LET idx == (hash1 + i * hash2) % m IN
         IF BitVecGet(st, idx) = "Some(false)"
         THEN LookupState("false", Append(trace, <<0, idx>>))
         ELSE ClassicalLookupLoop(st, Append(trace, <<0, idx>>), hash1, hash2, i + 1)

\* ClassicalBloomFilter::lookup, on a filter with m > 0
ClassicalLookup(st, value) ==
    ClassicalLookupLoop(st, <<>>, xxh3_64_with_seed(value, SEED1) % m,
                        xxh3_64_with_seed(value, SEED2) % m, 0)

\* ------------------------------------------------------------ partitioned
\* PartitionedInsertLoop writing every probe into partitions[0]
RECURSIVE PartitionedInsertLoop_FirstPartition(_, _, _, _, _)
PartitionedInsertLoop_FirstPartition(parts, trace, hash1, hash2, i) ==
    IF i >= k THEN LoopState(parts, trace, FALSE)
    ELSE LET idx == (hash1 + i * hash2) % partition_size IN
         IF 0 \notin DOMAIN parts \/ BitVecSetPanics(parts[0], idx)
         THEN LoopState(parts, trace, TRUE)
         ELSE PartitionedInsertLoop_FirstPartition(
                  [parts EXCEPT ![0] = BitVecSet(parts[0], idx, TRUE)],
                  Append(trace, <<0, idx>>), hash1, hash2, i + 1)

\* for i in 0..self.k { idx = (hash1 + i * hash2) % partition_size;
\*                      self.partitions[i].set(idx, true) }
RECURSIVE PartitionedInsertLoop(_, _, _, _, _)
PartitionedInsertLoop(parts, trace, hash1, hash2, i) ==
    IF i >= k THEN LoopState(parts, trace, FALSE)
    ELSE LET idx == (hash1 + i * hash2) % partition_size IN
         IF i \notin DOMAIN parts \/ BitVecSetPanics(parts[i], idx)
         THEN LoopState(parts, trace, TRUE)
         ELSE PartitionedInsertLoop([parts EXCEPT ![i] = BitVecSet(parts[i], idx, TRUE)],
                                    Append(trace, <<i, idx>>), hash1, hash2, i + 1)

\* PartitionedInsert starting from freshly zeroed partitions
PartitionedInsert_Reset(parts, value) ==
    PartitionedInsertLoop([i \in DOMAIN parts |-> BitVecFromElem(partition_size)], <<>>,
                          xxh3_64_with_seed(value, SEED1) % partition_size,
                          xxh3_64_with_seed(value, SEED2) % partition_size, 0)

\* PartitionedBloomFilter::insert, on a filter with partition_size > 0
PartitionedInsert(parts, value) ==
    PartitionedInsertLoop(parts, <<>>, xxh3_64_with_seed(value, SEED1) % partition_size,
                          xxh3_64_with_seed(value, SEED2) % partition_size, 0)

\* for i in 0..self.k { if self.partitions[i].get(idx) == Some(false) { return false } } true
RECURSIVE PartitionedLookupLoop(_, _, _, _, _)
PartitionedLookupLoop(parts, trace, hash1, hash2, i) ==
    IF i >= k THEN LookupState("true", trace)
    ELSE LET idx == (hash1 + i * hash2) % partition_size IN
         IF i \notin DOMAIN parts THEN LookupState("oob", trace)
         ELSE IF BitVecGet(parts[i], idx) = "Some(false)"
              THEN LookupState("false", Append(trace, <<i, idx>>))
              ELSE PartitionedLookupLoop(parts, Append(trace, <<i, idx>>), hash1, hash2, i + 1)

\* PartitionedBloomFilter::lookup, on a filter with partition_size > 0
PartitionedLookup(parts, value) ==
    PartitionedLookupLoop(parts, <<>>, xxh3_64_with_seed(value, SEED1) % partition_size,
                          xxh3_64_with_seed(value, SEED2) % partition_size, 0)

\* ------------------------------------------------------------ calls
\* known: for insert, whether an earlier insert of the same value had returned
Call(op, value, result, trace, known) ==
    [op |-> op, value |-> value, result |-> result, trace |-> trace, known |-> known]

NoFilter ==
    /\ m' = 0 /\ k' = 0 /\ partition_size' = 0
    /\ storage' = <<>> /\ partitions' = <<>>

\* ClassicalBloomFilter::new(n, f)
ClassicalNew(nArg, fArg) ==
    LET mv == calculate_m(fArg, nArg) IN
    IF nArg = 0
    THEN \* calculate_k: attempt to divide by zero
         /\ pc' = "panicked" /\ NoFilter
         /\ lastOp' = Call("new", <<>>, "panic_div_zero", <<>>, FALSE)
    ELSE IF mv = U64_MAX
    THEN \* BitVec::from_elem(u64::MAX as usize, false): the allocation fails
         /\ pc' = "panicked" /\ NoFilter
         /\ lastOp' = Call("new", <<>>, "alloc_failure", <<>>, FALSE)
    ELSE /\ pc' = "ready"
         /\ m' = mv
         /\ k' = calculate_k(mv, nArg)
         /\ storage' = BitVecFromElem(mv)
         /\ partition_size' = 0 /\ partitions' = <<>>
         /\ lastOp' = Call("new", <<>>, "ok", <<>>, FALSE)

\* PartitionedBloomFilter::new(n, f)
PartitionedNew(nArg, fArg) ==
    LET mv == calculate_m(fArg, nArg) IN
    IF nArg = 0
    THEN \* calculate_k: attempt to divide by zero
         /\ pc' = "panicked" /\ NoFilter
         /\ lastOp' = Call("new", <<>>, "panic_div_zero", <<>>, FALSE)
    ELSE IF mv = U64_MAX
    THEN \* k BitVecs with k about u64::MAX / n * ln 2: the allocation fails
         /\ pc' = "panicked" /\ NoFilter
         /\ lastOp' = Call("new", <<>>, "alloc_failure", <<>>, FALSE)
    ELSE LET kv == calculate_k(mv, nArg) IN
         IF kv = 0
         THEN \* (m/k): attempt to divide by zero
              /\ pc' = "panicked" /\ NoFilter
              /\ lastOp' = Call("new", <<>>, "panic_div_zero", <<>>, FALSE)
         ELSE /\ pc' = "ready"
              /\ m' = mv
              /\ k' = kv
              /\ partition_size' = mv \div kv
              /\ partitions' = [i \in 0..(kv - 1) |-> BitVecFromElem(mv \div kv)]
              /\ storage' = <<>>
              /\ lastOp' = Call("new", <<>>, "ok", <<>>, FALSE)

New(variantArg, nArg, fArg) ==
    /\ pc = "start"
    /\ variant' = variantArg /\ n' = nArg /\ f' = fArg
    /\ IF variantArg = "classical" THEN ClassicalNew(nArg, fArg)
       ELSE PartitionedNew(nArg, fArg)
    /\ UNCHANGED <<inserted, salt>>

\* the modulus of the double hashing: self.m, or self.partition_size
Modulus == IF variant = "classical" THEN m ELSE partition_size

\* insert(value) as a whole: hash1 and hash2 (% 0 panics), then the loop
InsertOutcome(value) ==
    IF Modulus = 0 THEN [st |-> <<>>, trace |-> <<>>, result |-> "panic_rem_zero"]
    ELSE LET r == IF variant = "classical" THEN ClassicalInsert(storage, value)
                  ELSE PartitionedInsert(partitions, value)
         IN [st |-> r.st, trace |-> r.trace,
             result |-> IF r.oob THEN "panic_oob" ELSE "ok"]

Insert(value) ==
    /\ pc = "ready"
    /\ LET r == InsertOutcome(value) IN
       /\ lastOp' = Call("insert", value, r.result, r.trace, value \in inserted)
       /\ IF r.result = "ok"
          THEN /\ pc' = "ready"
               /\ inserted' = inserted \cup {value}
               /\ IF variant = "classical"
                  THEN storage' = r.st /\ UNCHANGED partitions
                  ELSE partitions' = r.st /\ UNCHANGED storage
          ELSE /\ pc' = "panicked"
               /\ UNCHANGED <<inserted, storage, partitions>>
    /\ UNCHANGED <<variant, n, f, m, k, partition_size, salt>>

\* lookup(value) as a whole: hash1 and hash2 (% 0 panics), then the loop
LookupOutcome(value) ==
    IF Modulus = 0 THEN LookupState("panic_rem_zero", <<>>)
    ELSE LET r == IF variant = "classical" THEN ClassicalLookup(storage, value)
                  ELSE PartitionedLookup(partitions, value)
         IN LookupState(IF r.res = "oob" THEN "panic_oob" ELSE r.res, r.trace)

Lookup(value) ==
    /\ pc = "ready"
    /\ LET r == LookupOutcome(value) IN
       /\ lastOp' = Call("lookup", value, r.res, r.trace, FALSE)
       /\ pc' = IF r.res \in {"true", "false"} THEN "ready" ELSE "panicked"
    /\ UNCHANGED <<variant, n, f, m, k, partition_size, storage, partitions,
                   inserted, salt>>

Init ==
    /\ pc = "start"
    /\ variant = "classical" /\ n = 0 /\ f = 0
    /\ m = 0 /\ k = 0 /\ partition_size = 0
    /\ storage = <<>> /\ partitions = <<>>
    /\ lastOp = Call("none", <<>>, "ok", <<>>, FALSE)
    /\ inserted = {}
    /\ salt \in 0..MaxSalt

Next ==
    \/ \E variantArg \in Variants, nArg \in 0..MaxN, fArg \in FSamples :
          New(variantArg, nArg, fArg)
    \/ \E value \in Values : Insert(value)
    \/ \E value \in Values : Lookup(value)

Spec == Init /\ [][Next]_vars

\* ------------------------------------------------------------ the calculator alone
InitCalc ==
    /\ pc = "calc"
    /\ variant = "classical" /\ n \in 0..MaxCalcN /\ f \in FSamples
    /\ m = 0 /\ k = 0 /\ partition_size = 0
    /\ storage = <<>> /\ partitions = <<>>
    /\ lastOp = Call("none", <<>>, "ok", <<>>, FALSE)
    /\ inserted = {}
    /\ salt = 0

\* let m = Self::calculate_m(f, n)
CalcM ==
    /\ pc = "calc"
    /\ m' = calculate_m(f, n)
    /\ pc' = "calc_m"
    /\ lastOp' = Call("calculate_m", <<>>, "ok", <<>>, FALSE)
    /\ UNCHANGED <<variant, n, f, k, partition_size, storage, partitions, inserted, salt>>

\* Self::calculate_k(m, n); m = u64::MAX is beyond the integers of the checker
CalcK ==
    /\ pc = "calc_m"
    /\ m # U64_MAX
    /\ IF n = 0
       THEN /\ pc' = "panicked" /\ k' = k
            /\ lastOp' = Call("calculate_k", <<>>, "panic_div_zero", <<>>, FALSE)
       ELSE /\ pc' = "calc_k" /\ k' = calculate_k(m, n)
            /\ lastOp' = Call("calculate_k", <<>>, "ok", <<>>, FALSE)
    /\ UNCHANGED <<variant, n, f, m, partition_size, storage, partitions, inserted, salt>>

NextCalc == CalcM \/ CalcK

SpecCalc == InitCalc /\ [][NextCalc]_vars

\* ------------------------------------------------------------ claims
\* the probe of hash function i for value, as the double hashing defines it
ProbeIndex(value, i) ==
    ((xxh3_64_with_seed(value, SEED1) % Modulus)
        + i * (xxh3_64_with_seed(value, SEED2) % Modulus)) % Modulus

\* where probe i lives: the one bit sequence, or partition i
ProbePart(i) == IF variant = "classical" THEN 0 ELSE i

Probes(value) == {<<ProbePart(i), ProbeIndex(value, i)>> : i \in 0..(k - 1)}

\* the bit at index idx of partition p (of the storage, for the classical filter)
BitAt(p, idx) == IF variant = "classical" THEN storage[idx] ELSE partitions[p][idx]

Range(seq) == {seq[j] : j \in 1..Len(seq)}

\* C2: for n >= 1 and f in (0,1), calculate_m(f, n) is ceil(-(n * ln f) / (ln 2)^2),
\* and calculate_m(0.01, 10) = 96.
C2_CalculateMIsCeil ==
    (pc = "calc_m" /\ ValidParams(n, f)) =>
        /\ m = Ceil(-(n * LnMicro(f)), LN_2_POW2)
        /\ (f = 1 /\ n = 10) => m = 96

\* C3: a filter built with n >= 1 and f in (0,1) has m >= 1 and k >= 1, with
\* m = calculate_m(f, n) and k = calculate_k(m, n).
C3_DerivedParametersPositive ==
    (pc = "ready" /\ ValidParams(n, f)) =>
        /\ m >= 1 /\ k >= 1
        /\ m = calculate_m(f, n)
        /\ k = calculate_k(m, n)

\* C4: new() with n = 0, f <= 0 or f >= 1 never yields a filter.
C4_InvalidParamsRejected ==
    (lastOp.op = "new" /\ ~ValidParams(n, f)) => (pc # "ready" /\ lastOp.result # "ok")

\* C5: on a filter built with n >= 1 and f in (0,1), insert and lookup never panic.
C5_InsertLookupTotal ==
    (ValidParams(n, f) /\ lastOp.op \in {"insert", "lookup"}) =>
        lastOp.result \in {"ok", "true", "false"}

\* C10: on a filter built with n >= 1 and f in (0,1) and never inserted into,
\* lookup(v) returns false for every v.
C10_FreshLookupFalse ==
    (pc = "ready" /\ ValidParams(n, f) /\ inserted = {}) =>
        (lastOp.op = "lookup" => lastOp.result = "false")

\* C1: no false negatives: once insert(v) has returned, lookup(v) returns true in
\* every later state, for both filters.
C1_NoFalseNegatives ==
    pc = "ready" =>
        /\ \A v \in inserted : LookupOutcome(v).res = "true"
        /\ (lastOp.op = "lookup" /\ lastOp.value \in inserted) => lastOp.result = "true"

\* a lookup of an inserted value has answered, on a filter with several probes
\* holding several values
C1_Witness ==
    /\ pc = "ready" /\ lastOp.op = "lookup" /\ lastOp.value \in inserted
    /\ lastOp.result = "true" /\ k >= 2 /\ Cardinality(inserted) >= 2

\* C6: the bits never go from 1 to 0, whatever the call, and lookup changes no bit.
C6_BitsMonotone ==
    [][/\ DOMAIN storage' = DOMAIN storage \/ pc = "start"
       /\ DOMAIN partitions' = DOMAIN partitions \/ pc = "start"
       /\ pc # "start" =>
            /\ \A idx \in DOMAIN storage : storage[idx] => storage'[idx]
            /\ \A i \in DOMAIN partitions :
                  /\ DOMAIN partitions'[i] = DOMAIN partitions[i]
                  /\ \A idx \in DOMAIN partitions[i] :
                        partitions[i][idx] => partitions'[i][idx]
            /\ lastOp'.op = "lookup" => (storage' = storage /\ partitions' = partitions)
      ]_vars

\* an insert has returned on a filter that already held another value's bits
C6_Witness ==
    /\ pc = "ready" /\ lastOp.op = "insert" /\ lastOp.result = "ok"
    /\ Cardinality(inserted) >= 2 /\ k >= 1
    /\ \E pr \in Probes(lastOp.value) : BitAt(pr[1], pr[2])

\* C7: insert(v) of a value whose insert has returned before leaves every bit as it
\* was (and with the bits every lookup answer, which LookupOutcome computes from
\* the bits and the fixed m, k and partition_size alone).
C7_InsertIdempotent ==
    [][(pc = "ready" /\ lastOp'.op = "insert" /\ lastOp'.value \in inserted) =>
            /\ lastOp'.result = "ok"
            /\ storage' = storage
            /\ partitions' = partitions
            /\ UNCHANGED <<m, k, partition_size, variant, salt>>
      ]_vars

\* a second insert of a value has returned, on a filter that holds other values too
C7_Witness ==
    /\ pc = "ready" /\ lastOp.op = "insert" /\ lastOp.known /\ lastOp.result = "ok"
    /\ k >= 1 /\ Cardinality(inserted) >= 2

\* C8: the partitioned filter has k bit sequences of length partition_size =
\* floor(m / k); probe i of insert(v) and lookup(v) touches partition i only, at
\* the index (h1 + i * h2) mod partition_size, which is below partition_size; an
\* insert writes exactly one bit in each of the k partitions.
C8_PartitionIndependence ==
    (pc = "ready" /\ variant = "partitioned") =>
        /\ partition_size = m \div k
        /\ DOMAIN partitions = 0..(k - 1)
        /\ \A i \in DOMAIN partitions : DOMAIN partitions[i] = 0..(partition_size - 1)
        /\ lastOp.op \in {"insert", "lookup"} =>
              \A j \in 1..Len(lastOp.trace) :
                  /\ lastOp.trace[j][1] = j - 1
                  /\ lastOp.trace[j][2] \in 0..(partition_size - 1)
                  /\ lastOp.trace[j][2] = ProbeIndex(lastOp.value, j - 1)
        /\ lastOp.op = "insert" =>
              /\ Len(lastOp.trace) = k
              /\ \A i \in 0..(k - 1) :
                    /\ Cardinality({j \in 1..k : lastOp.trace[j][1] = i}) = 1
                    /\ partitions[i][ProbeIndex(lastOp.value, i)]

\* an insert has returned on a partitioned filter with several partitions of
\* several bits
C8_Witness ==
    /\ pc = "ready" /\ variant = "partitioned" /\ lastOp.op = "insert"
    /\ lastOp.result = "ok" /\ k >= 3 /\ partition_size >= 2

\* the least element of a non-empty set of naturals
Least(S) == CHOOSE x \in S : \A y \in S : x <= y

\* C9: lookup(v) is true exactly when, for every i in 0..k-1, the bit at
\* (h1 + i * h2) mod M (of partition i, for the partitioned filter) is 1; it
\* returns false at the first such bit that is 0; these are the bits insert(v) sets.
C9_LookupIsConjunction ==
    (pc = "ready" /\ Modulus > 0) =>
        /\ \A v \in Values :
              LET r == LookupOutcome(v)
                  zeros == {i \in 0..(k - 1) : ~BitAt(ProbePart(i), ProbeIndex(v, i))}
              IN /\ r.res \in {"true", "false"}
                 /\ (r.res = "true") <=> (zeros = {})
                 /\ r.res = "false" => Len(r.trace) = Least(zeros) + 1
                 /\ Range(r.trace) \subseteq Probes(v)
                 /\ Range(InsertOutcome(v).trace) = Probes(v)
        /\ lastOp.op = "lookup" =>
              ((lastOp.result = "true") <=>
                  \A pr \in Probes(lastOp.value) : BitAt(pr[1], pr[2]))

\* a lookup has answered false at its second probe or later
C9_Witness ==
    /\ pc = "ready" /\ lastOp.op = "lookup" /\ lastOp.result = "false"
    /\ Len(lastOp.trace) >= 2 /\ inserted # {}

====
